---- MODULE Spec2Model ----
(***************************************************************************)
(* Model of the ratatui JSON editor (src/ratatui-json-editor): the App     *)
(* state of app.rs, the key dispatch of run_app and the terminal           *)
(* setup / restore / report sequence of main in main.rs (specification     *)
(* Spec), and of the counter app (src/ratatui-counter-app): its App, run   *)
(* loop and key handling (specification SpecCounter).  The two programs    *)
(* share no state: each specification leaves the other program's           *)
(* variables at rest.                                                      *)
(*                                                                         *)
(* Strings are sequences of one-character strings.  The HashMap `pairs`    *)
(* is a function from key strings to value strings.  Every call that can   *)
(* return Err (the `?` sites of main and run_app) either succeeds or       *)
(* fails, chosen nondeterministically.                                     *)
(***************************************************************************)
EXTENDS Integers, Sequences, FiniteSets, TLC

VARIABLES
    key_input,          \* App.key_input                       app.rs:13
    value_input,        \* App.value_input                     app.rs:14
    pairs,              \* App.pairs                           app.rs:15
    current_screen,     \* App.current_screen                  app.rs:16
    currently_editing,  \* App.currently_editing               app.rs:17
    event,              \* the value read by event::read()     main.rs:65
    res,                \* result of run_app                   main.rs:27
    pc,                 \* position in main                    main.rs:12-49
    raw_mode,           \* terminal raw mode is enabled        main.rs:14,30
    alternate_screen,   \* terminal is on the alternate screen main.rs:19,31-35
    printed,            \* the maps print_json was invoked on  main.rs:42
    err_printed,        \* main printed run_app's error        main.rs:44-46
    exit_status,        \* value main returned                 main.rs:12,48
    typed,              \* history: the run of characters pushed to key_input
    base,               \* history: key_input when that run started
    counter,            \* counter app: App.counter (u8)      main.rs:22
    exit,               \* counter app: App.exit              main.rs:23
    c_pc,               \* counter app: position in main      main.rs:191-205
    c_event,            \* counter app: value of event::read() main.rs:47
    key_result,         \* counter app: outcome of the last handle_key_event
    frame,              \* counter app: counter value of the last frame drawn
    c_exit,             \* counter app: how main ended
    overflow_checks     \* counter app: the build checks integer overflow

app == <<key_input, value_input, pairs, current_screen, currently_editing>>
term == <<raw_mode, alternate_screen>>
hist == <<typed, base>>
\* the variables of the JSON editor
jvars == <<key_input, value_input, pairs, current_screen, currently_editing,
           event, res, pc, raw_mode, alternate_screen, printed, err_printed,
           exit_status, typed, base>>
\* the variables of the counter app
cvars == <<counter, exit, c_pc, c_event, key_result, frame, c_exit,
           overflow_checks>>
vars == <<key_input, value_input, pairs, current_screen, currently_editing,
          event, res, pc, raw_mode, alternate_screen, printed, err_printed,
          exit_status, typed, base, counter, exit, c_pc, c_event, key_result,
          frame, c_exit, overflow_checks>>

----------------------------------------------------------------------------
(* Bounds of the model *)

\* the most characters that key_input, value_input and the keys and values of
\* pairs hold together
MaxChars == 2

----------------------------------------------------------------------------
(* Input events *)

\* the characters the dispatcher names: 'e', 'q' (main.rs:76,83),
\* 'y', 'n', 'q' (main.rs:92,96)
Chars == {"e", "q", "y", "n"}

\* KeyCode values: Char(c) is written c; F1 stands for every code no arm names
KeyCodes == Chars \cup {"Enter", "Backspace", "Esc", "Tab", "F1"}

\* KeyEventKind
KeyEventKinds == {"Press", "Release", "Repeat"}

\* Event::Key(key) with its kind and code
KeyEvents == [kind : KeyEventKinds, code : KeyCodes]

\* an Event that is not Event::Key (mouse, resize, ...)
NotKeyEvent == [kind |-> "NotKey", code |-> "Resize"]

Events == KeyEvents \cup {NotKeyEvent}

\* no event has been read in this round of the loop
NoEvent == [kind |-> "None", code |-> "None"]

\* String::pop: drop the last character, nothing on an empty string
Pop(s) == IF s = <<>> THEN s ELSE SubSeq(s, 1, Len(s) - 1)

\* String::push
Push(s, c) == Append(s, c)

\* HashMap::insert: k maps to v, every other entry is kept
Insert(m, k, v) ==
    [x \in (DOMAIN m) \cup {k} |-> IF x = k THEN v ELSE m[x]]

----------------------------------------------------------------------------
(* Initial state: main has not run yet; App::new() values *)

\* the counter app is not running
CounterAtRest ==
    /\ counter = 0
    /\ exit = FALSE
    /\ c_pc = "not_running"
    /\ c_event = NoEvent
    /\ key_result = "None"
    /\ frame = <<>>
    /\ c_exit = "Running"
    /\ overflow_checks = TRUE

Init ==
    /\ CounterAtRest
    /\ key_input = <<>>
    /\ value_input = <<>>
    /\ pairs = <<>>
    /\ current_screen = "Main"
    /\ currently_editing = "None"
    /\ event = NoEvent
    /\ res = "None"
    /\ pc = "enable_raw_mode"
    /\ raw_mode = FALSE
    /\ alternate_screen = FALSE
    /\ printed = <<>>
    /\ err_printed = FALSE
    /\ exit_status = "Running"
    /\ typed = <<>>
    /\ base = <<>>

----------------------------------------------------------------------------
(* App methods (app.rs) *)

\* save_key_value with entry().or_insert() in place of insert(): an existing
\* key keeps its old value
save_key_value_keeps_old ==
    /\ pairs' = IF key_input \in DOMAIN pairs
                THEN pairs
                ELSE Insert(pairs, key_input, value_input)
    /\ key_input' = <<>>
    /\ value_input' = <<>>
    /\ currently_editing' = "None"

\* App::save_key_value
save_key_value ==
    /\ pairs' = Insert(pairs, key_input, value_input)
    /\ key_input' = <<>>
    /\ value_input' = <<>>
    /\ currently_editing' = "None"

\* a toggle that leaves Value where it is
Toggled_sticks(editing) ==
    IF editing = "Key" THEN "Value"
    ELSE IF editing = "Value" THEN "Value"
    ELSE "Key"

\* the match of App::toggle_editing: the field after the toggle
Toggled(editing) ==
    IF editing = "Key" THEN "Value"
    ELSE IF editing = "Value" THEN "Key"
    ELSE "Key"

\* App::toggle_editing
toggle_editing ==
    /\ currently_editing' = Toggled(currently_editing)
    /\ UNCHANGED <<key_input, value_input, pairs, current_screen>>

----------------------------------------------------------------------------
(* run_app: the arms of the screen match (main.rs:72-167) *)

\* the loop goes round again: run_app does not return
Continue == UNCHANGED <<res, pc>>

\* run_app returns Ok(do_print); main goes on to restore the terminal
ReturnOk(do_print) ==
    /\ res' = IF do_print THEN "OkTrue" ELSE "OkFalse"
    /\ pc' = "disable_raw_mode"

\* run_app returns Err through a `?`
ReturnErr ==
    /\ res' = "Err"
    /\ pc' = "disable_raw_mode"

\* the Main arm with 'q' leaving the loop at once, without the Exiting prompt
MainKey_quits(code) ==
    /\ UNCHANGED <<key_input, value_input, pairs>>
    /\ IF code = "e"
          THEN /\ current_screen' = "Editing"
               /\ currently_editing' = "Key"
               /\ Continue
          ELSE IF code = "q"
          THEN /\ UNCHANGED <<current_screen, currently_editing>>
               /\ ReturnOk(FALSE)
          ELSE /\ UNCHANGED <<current_screen, currently_editing>>
               /\ Continue

\* the Main arm with Esc bound to quit
MainKey_esc_quits(code) ==
    /\ IF code = "e"
          THEN /\ current_screen' = "Editing"
               /\ currently_editing' = "Key"
          ELSE IF code \in {"q", "Esc"}
          THEN /\ current_screen' = "Exiting"
               /\ UNCHANGED currently_editing
          ELSE UNCHANGED <<current_screen, currently_editing>>
    /\ UNCHANGED <<key_input, value_input, pairs>>
    /\ Continue

\* the Main arm with the 'e' that opens the editor also typed into key_input
MainKey_types(code) ==
    /\ IF code = "e"
          THEN /\ current_screen' = "Editing"
               /\ currently_editing' = "Key"
               /\ key_input' = Push(key_input, code)
          ELSE IF code = "q"
          THEN /\ current_screen' = "Exiting"
               /\ UNCHANGED <<currently_editing, key_input>>
          ELSE UNCHANGED <<current_screen, currently_editing, key_input>>
    /\ UNCHANGED <<value_input, pairs>>
    /\ Continue

\* CurrentScreen::Main => match key.code
MainKey(code) ==
    /\ IF code = "e"
          THEN /\ current_screen' = "Editing"
               /\ currently_editing' = "Key"
          ELSE IF code = "q"
          THEN /\ current_screen' = "Exiting"
               /\ UNCHANGED currently_editing
          ELSE UNCHANGED <<current_screen, currently_editing>>
    /\ UNCHANGED <<key_input, value_input, pairs>>
    /\ Continue

\* the Exiting arm with the two answers exchanged
ExitingKey_swapped(code) ==
    /\ IF code = "y" THEN ReturnOk(FALSE)
       ELSE IF code \in {"n", "q"} THEN ReturnOk(TRUE)
       ELSE Continue
    /\ UNCHANGED app

\* the Exiting arm with 'n' cancelling the prompt and going back to Main
ExitingKey_cancels(code) ==
    IF code = "y" THEN ReturnOk(TRUE) /\ UNCHANGED app
    ELSE IF code = "q" THEN ReturnOk(FALSE) /\ UNCHANGED app
    ELSE IF code = "n"
    THEN /\ current_screen' = "Main"
         /\ UNCHANGED <<key_input, value_input, pairs, currently_editing>>
         /\ Continue
    ELSE Continue /\ UNCHANGED app

\* CurrentScreen::Exiting => match key.code
ExitingKey(code) ==
    /\ IF code = "y" THEN ReturnOk(TRUE)
       ELSE IF code \in {"n", "q"} THEN ReturnOk(FALSE)
       ELSE Continue
    /\ UNCHANGED app

\* Enter that saves the pair and forgets to go back to Main
EnterKey_stays ==
    IF currently_editing = "Key"
    THEN /\ currently_editing' = "Value"
         /\ UNCHANGED <<key_input, value_input, pairs, current_screen>>
    ELSE IF currently_editing = "Value"
    THEN /\ save_key_value
         /\ UNCHANGED current_screen
    ELSE UNCHANGED app

\* KeyCode::Enter
EnterKey ==
    IF currently_editing = "Key"
    THEN /\ currently_editing' = "Value"
         /\ UNCHANGED <<key_input, value_input, pairs, current_screen>>
    ELSE IF currently_editing = "Value"
    THEN /\ save_key_value
         /\ current_screen' = "Main"
    ELSE UNCHANGED app

\* Backspace that pops key_input whatever the field is
BackspaceKey_always_key ==
    IF currently_editing # "None"
    THEN /\ key_input' = Pop(key_input)
         /\ UNCHANGED <<value_input, pairs, current_screen, currently_editing>>
    ELSE UNCHANGED app

\* KeyCode::Backspace.  Both arms of the match carry the pattern
\* CurrentlyEditing::Key: the first takes Key, the second (value_input.pop())
\* is never selected, and Value selects no arm.
BackspaceKey ==
    IF currently_editing = "Key"
    THEN /\ key_input' = Pop(key_input)
         /\ UNCHANGED <<value_input, pairs, current_screen, currently_editing>>
    ELSE UNCHANGED app

\* Esc that leaves currently_editing as it was
EscKey_keeps_field ==
    /\ current_screen' = "Main"
    /\ UNCHANGED <<key_input, value_input, pairs, currently_editing>>

\* Esc that also throws the committed pairs away
EscKey_clears_pairs ==
    /\ current_screen' = "Main"
    /\ currently_editing' = "None"
    /\ pairs' = <<>>
    /\ UNCHANGED <<key_input, value_input>>

\* Esc that also empties the two buffers
EscKey_clears_buffers ==
    /\ current_screen' = "Main"
    /\ currently_editing' = "None"
    /\ key_input' = <<>>
    /\ value_input' = <<>>
    /\ UNCHANGED pairs

\* KeyCode::Esc
EscKey ==
    /\ current_screen' = "Main"
    /\ currently_editing' = "None"
    /\ UNCHANGED <<key_input, value_input, pairs>>

\* typing with insert(0, value) in place of push(value)
CharKey_prepends(value) ==
    IF currently_editing = "Key"
    THEN /\ key_input' = <<value>> \o key_input
         /\ UNCHANGED <<value_input, pairs, current_screen, currently_editing>>
    ELSE IF currently_editing = "Value"
    THEN /\ value_input' = <<value>> \o value_input
         /\ UNCHANGED <<key_input, pairs, current_screen, currently_editing>>
    ELSE UNCHANGED app

\* KeyCode::Char(value)
CharKey(value) ==
    IF currently_editing = "Key"
    THEN /\ key_input' = Push(key_input, value)
         /\ UNCHANGED <<value_input, pairs, current_screen, currently_editing>>
    ELSE IF currently_editing = "Value"
    THEN /\ value_input' = Push(value_input, value)
         /\ UNCHANGED <<key_input, pairs, current_screen, currently_editing>>
    ELSE UNCHANGED app

\* CurrentScreen::Editing if key.kind == KeyEventKind::Press => match key.code
EditingKey(code) ==
    /\ IF code = "Enter" THEN EnterKey
       ELSE IF code = "Backspace" THEN BackspaceKey
       ELSE IF code = "Esc" THEN EscKey
       ELSE IF code = "Tab" THEN toggle_editing
       ELSE IF code \in Chars THEN CharKey(code)
       ELSE UNCHANGED app
    /\ Continue

\* the filter of main.rs:66-69, `key.kind == event::KeyEventKind:Release`
\* read as KeyEventKind::Release: the kinds that `continue` the loop
Skipped(kind) == kind = "Release"

\* the guard of the Editing arm, main.rs:103
EditingGuard(kind) == kind = "Press"

\* the event pushes a character to key_input
PushesKey(ev) ==
    /\ ev.kind = "Press"
    /\ ev.code \in Chars
    /\ current_screen = "Editing"
    /\ currently_editing = "Key"

\* the event pushes a character to value_input
PushesValue(ev) ==
    /\ ev.kind = "Press"
    /\ ev.code \in Chars
    /\ current_screen = "Editing"
    /\ currently_editing = "Value"

\* the event commits the pair being edited
Commits(ev) ==
    /\ ev.kind = "Press"
    /\ ev.code = "Enter"
    /\ current_screen = "Editing"
    /\ currently_editing = "Value"

\* the number of characters of the keys in S and of their values in m
RECURSIVE CharsOf(_, _)
CharsOf(m, S) ==
    IF S = {} THEN 0
    ELSE LET k == CHOOSE x \in S : TRUE
         IN  Len(k) + Len(m[k]) + CharsOf(m, S \ {k})

\* the number of characters the editor holds
TotalChars == Len(key_input) + Len(value_input) + CharsOf(pairs, DOMAIN pairs)

\* the events the bounded model offers in the current state: a character is
\* typed only while the editor holds fewer than MaxChars characters
InBounds(ev) ==
    (PushesKey(ev) \/ PushesValue(ev)) => TotalChars < MaxChars

\* history of the characters pushed to key_input one after the other:
\* a push extends the run, an event the dispatcher ignores leaves it, any
\* other event ends it
History(ev) ==
    IF PushesKey(ev)
    THEN /\ typed' = Append(typed, ev.code)
         /\ base' = IF typed = <<>> THEN key_input ELSE base
    ELSE IF \/ ev.kind \in {"NotKey", "Release"}
            \/ (current_screen = "Editing" /\ ev.kind # "Press")
    THEN UNCHANGED hist
    ELSE /\ typed' = <<>>
         /\ base' = <<>>

\* one round of the loop of run_app in which draw and read succeed
\* (main.rs:58-169)
RunAppIteration(ev) ==
    /\ pc = "run_app"
    /\ InBounds(ev)
    /\ event' = ev
    /\ History(ev)
    /\ IF ev.kind = "NotKey" THEN UNCHANGED app /\ Continue
       ELSE IF Skipped(ev.kind) THEN UNCHANGED app /\ Continue
       ELSE IF current_screen = "Main" THEN MainKey(ev.code)
       ELSE IF current_screen = "Exiting" THEN ExitingKey(ev.code)
       ELSE IF current_screen = "Editing" /\ EditingGuard(ev.kind)
            THEN EditingKey(ev.code)
       ELSE UNCHANGED app /\ Continue
    /\ UNCHANGED <<term, printed, err_printed, exit_status>>
    /\ UNCHANGED cvars

\* terminal.draw(..)? fails (main.rs:61)
DrawFails ==
    /\ pc = "run_app"
    /\ ReturnErr
    /\ event' = NoEvent
    /\ UNCHANGED <<app, term, printed, err_printed, exit_status, hist>>
    /\ UNCHANGED cvars

\* event::read()? fails (main.rs:65)
ReadFails ==
    /\ pc = "run_app"
    /\ ReturnErr
    /\ event' = NoEvent
    /\ UNCHANGED <<app, term, printed, err_printed, exit_status, hist>>
    /\ UNCHANGED cvars

----------------------------------------------------------------------------
(* main (main.rs:12-49) *)

\* main returns status from the position it is at
Return(status) ==
    /\ pc' = "done"
    /\ exit_status' = status

\* enable_raw_mode()?  (main.rs:14)
EnableRawMode ==
    /\ pc = "enable_raw_mode"
    /\ \/ /\ raw_mode' = TRUE
          /\ pc' = "enter_alternate_screen"
          /\ UNCHANGED exit_status
       \/ /\ Return("Err")
          /\ UNCHANGED raw_mode
    /\ UNCHANGED <<app, event, res, alternate_screen, printed, err_printed, hist>>
    /\ UNCHANGED cvars

\* execute!(stderr, EnterAlternateScreen, EnableMouseCapture)?  (main.rs:19)
EnterAlternateScreen ==
    /\ pc = "enter_alternate_screen"
    /\ \/ /\ alternate_screen' = TRUE
          /\ pc' = "new_terminal"
          /\ UNCHANGED exit_status
       \/ /\ Return("Err")
          /\ UNCHANGED alternate_screen
    /\ UNCHANGED <<app, event, res, raw_mode, printed, err_printed, hist>>
    /\ UNCHANGED cvars

\* Terminal::new(backend)?, App::new(), call of run_app  (main.rs:22-27)
NewTerminal ==
    /\ pc = "new_terminal"
    /\ \/ /\ pc' = "run_app"
          /\ UNCHANGED exit_status
       \/ Return("Err")
    /\ UNCHANGED <<app, event, res, term, printed, err_printed, hist>>
    /\ UNCHANGED cvars

\* disable_raw_mode()?  (main.rs:30)
DisableRawMode ==
    /\ pc = "disable_raw_mode"
    /\ \/ /\ raw_mode' = FALSE
          /\ pc' = "leave_alternate_screen"
          /\ UNCHANGED exit_status
       \/ /\ Return("Err")
          /\ UNCHANGED raw_mode
    /\ UNCHANGED <<app, event, res, alternate_screen, printed, err_printed, hist>>
    /\ UNCHANGED cvars

\* execute!(.., LeaveAlternateScreen, DisableMouseCapture)?  (main.rs:31-35)
LeaveAlternateScreen ==
    /\ pc = "leave_alternate_screen"
    /\ \/ /\ alternate_screen' = FALSE
          /\ pc' = "show_cursor"
          /\ UNCHANGED exit_status
       \/ /\ Return("Err")
          /\ UNCHANGED alternate_screen
    /\ UNCHANGED <<app, event, res, raw_mode, printed, err_printed, hist>>
    /\ UNCHANGED cvars

\* terminal.show_cursor()?  (main.rs:36)
ShowCursor ==
    /\ pc = "show_cursor"
    /\ \/ /\ pc' = "report"
          /\ UNCHANGED exit_status
       \/ Return("Err")
    /\ UNCHANGED <<app, event, res, term, printed, err_printed, hist>>
    /\ UNCHANGED cvars

\* App::print_json, called on the app of main: the serializer receives pairs
print_json == printed' = Append(printed, pairs)

\* the report without the test of do_print: every Ok result prints
Report_prints_always ==
    /\ pc = "report"
    /\ \/ /\ res \in {"OkTrue", "OkFalse"}
          /\ print_json
          /\ \/ Return("Ok")
             \/ Return("Err")
          /\ UNCHANGED err_printed
       \/ /\ res = "Err"
          /\ err_printed' = TRUE
          /\ Return("Ok")
          /\ UNCHANGED printed
    /\ UNCHANGED <<app, event, res, term, hist>>
    /\ UNCHANGED cvars

\* if let Ok(do_print) = res { if do_print { app.print_json()?; } }
\* else { println!("{err:?}") };  Ok(())   (main.rs:40-48), with the
\* `if let Err(err) = err` of main.rs:44 read as a match on res
Report ==
    /\ pc = "report"
    /\ \/ /\ res = "OkTrue"
          /\ print_json
          /\ \/ Return("Ok")
             \/ Return("Err")
          /\ UNCHANGED err_printed
       \/ /\ res = "OkFalse"
          /\ Return("Ok")
          /\ UNCHANGED <<printed, err_printed>>
       \/ /\ res = "Err"
          /\ err_printed' = TRUE
          /\ Return("Ok")
          /\ UNCHANGED printed
    /\ UNCHANGED <<app, event, res, term, hist>>
    /\ UNCHANGED cvars

----------------------------------------------------------------------------

Next ==
    \/ EnableRawMode
    \/ EnterAlternateScreen
    \/ NewTerminal
    \/ \E ev \in Events : RunAppIteration(ev)
    \/ DrawFails
    \/ ReadFails
    \/ DisableRawMode
    \/ LeaveAlternateScreen
    \/ ShowCursor
    \/ Report

Spec == Init /\ [][Next]_vars

----------------------------------------------------------------------------
(* The counter app (src/ratatui-counter-app/src/main.rs) *)

\* the values of a u8 are 0 .. U8 - 1
U8 == 256

\* the largest counter increment_counter accepts (main.rs:79)
CounterLimit == 2

\* KeyCode values of the counter app; F1 stands for every code no arm names
CounterKeyCodes == {"q", "Left", "Right", "F1"}

CounterEvents == [kind : KeyEventKinds, code : CounterKeyCodes] \cup {NotKeyEvent}

\* App::default(), main not started; the build either checks integer
\* overflow (debug and test profiles) or wraps (release profile)
InitCounter ==
    /\ key_input = <<>>
    /\ value_input = <<>>
    /\ pairs = <<>>
    /\ current_screen = "Main"
    /\ currently_editing = "None"
    /\ event = NoEvent
    /\ res = "None"
    /\ pc = "not_running"
    /\ raw_mode = FALSE
    /\ alternate_screen = FALSE
    /\ printed = <<>>
    /\ err_printed = FALSE
    /\ exit_status = "Running"
    /\ typed = <<>>
    /\ base = <<>>
    /\ counter = 0
    /\ exit = FALSE
    /\ c_pc = "install_hooks"
    /\ c_event = NoEvent
    /\ key_result = "None"
    /\ frame = <<>>
    /\ c_exit = "Running"
    /\ overflow_checks \in BOOLEAN

\* main ends with status: Ok, Err (an error returned through `?`) or Panic
CounterEnds(status) ==
    /\ c_pc' = "done"
    /\ c_exit' = status

\* the run loop goes round again
CounterGoesOn == UNCHANGED <<c_pc, c_exit>>

\* App::exit
exit_app ==
    /\ exit' = TRUE
    /\ key_result' = "Ok"
    /\ UNCHANGED counter
    /\ CounterGoesOn

\* App::decrement_counter: `self.counter -= 1` on a u8.  Below 0 a build with
\* overflow checks panics and a build without them wraps.
decrement_counter ==
    /\ UNCHANGED exit
    /\ IF counter = 0 /\ overflow_checks
       THEN /\ key_result' = "attempt to subtract with overflow"
            /\ UNCHANGED counter
            /\ CounterEnds("Panic")
       ELSE /\ counter' = (counter - 1) % U8
            /\ key_result' = "Ok"
            /\ CounterGoesOn

\* increment_counter that tests the limit before it adds
increment_counter_checks_first ==
    /\ UNCHANGED exit
    /\ IF counter > CounterLimit
       THEN /\ key_result' = "counter overflow"
            /\ UNCHANGED counter
            /\ CounterEnds("Err")
       ELSE /\ counter' = (counter + 1) % U8
            /\ key_result' = "Ok"
            /\ CounterGoesOn

\* App::increment_counter: `self.counter += 1`, then bail!("counter overflow")
\* if it is above 2; the error goes up through run and main
increment_counter ==
    /\ UNCHANGED exit
    /\ IF counter = U8 - 1 /\ overflow_checks
       THEN /\ key_result' = "attempt to add with overflow"
            /\ UNCHANGED counter
            /\ CounterEnds("Panic")
       ELSE /\ counter' = (counter + 1) % U8
            /\ IF (counter + 1) % U8 > CounterLimit
               THEN /\ key_result' = "counter overflow"
                    /\ CounterEnds("Err")
               ELSE /\ key_result' = "Ok"
                    /\ CounterGoesOn

\* App::handle_key_event
handle_key_event(code) ==
    IF code = "q" THEN exit_app
    ELSE IF code = "Left" THEN decrement_counter
    ELSE IF code = "Right" THEN increment_counter
    ELSE /\ key_result' = "Ok"
         /\ UNCHANGED <<counter, exit>>
         /\ CounterGoesOn

\* App::handle_events once event::read() has returned ev
handle_events(ev) ==
    IF ev.kind = "Press"
    THEN handle_key_event(ev.code)
    ELSE /\ key_result' = "None"
         /\ UNCHANGED <<counter, exit>>
         /\ CounterGoesOn

\* errors::install_hooks()?  (main.rs:193)
InstallHooks ==
    /\ c_pc = "install_hooks"
    /\ \/ /\ c_pc' = "init"
          /\ UNCHANGED c_exit
       \/ CounterEnds("Err")
    /\ UNCHANGED <<counter, exit, c_event, key_result, frame, overflow_checks>>
    /\ UNCHANGED jvars

\* tui::init()? and App::default()  (main.rs:196-199)
TuiInit ==
    /\ c_pc = "init"
    /\ \/ /\ c_pc' = "run"
          /\ UNCHANGED c_exit
       \/ CounterEnds("Err")
    /\ UNCHANGED <<counter, exit, c_event, key_result, frame, overflow_checks>>
    /\ UNCHANGED jvars

\* one round of the loop of App::run in which draw and read succeed: the
\* frame shows the counter, then the event is handled  (main.rs:30-34)
CounterIteration(ev) ==
    /\ c_pc = "run"
    /\ ~exit
    /\ frame' = <<counter>>
    /\ c_event' = ev
    /\ handle_events(ev)
    /\ UNCHANGED overflow_checks
    /\ UNCHANGED jvars

\* terminal.draw(..)? fails  (main.rs:32)
CounterDrawFails ==
    /\ c_pc = "run"
    /\ ~exit
    /\ CounterEnds("Err")
    /\ c_event' = NoEvent
    /\ key_result' = "None"
    /\ UNCHANGED <<counter, exit, frame, overflow_checks>>
    /\ UNCHANGED jvars

\* the frame is drawn and event::read()? fails  (main.rs:47)
CounterReadFails ==
    /\ c_pc = "run"
    /\ ~exit
    /\ frame' = <<counter>>
    /\ CounterEnds("Err")
    /\ c_event' = NoEvent
    /\ key_result' = "None"
    /\ UNCHANGED <<counter, exit, overflow_checks>>
    /\ UNCHANGED jvars

\* `while !self.exit` ends and run returns Ok(())  (main.rs:30,35)
RunReturns ==
    /\ c_pc = "run"
    /\ exit
    /\ c_pc' = "restore"
    /\ UNCHANGED <<counter, exit, c_event, key_result, frame, c_exit,
                   overflow_checks>>
    /\ UNCHANGED jvars

\* tui::restore()?; Ok(())  (main.rs:202-204)
TuiRestore ==
    /\ c_pc = "restore"
    /\ \/ CounterEnds("Ok")
       \/ CounterEnds("Err")
    /\ UNCHANGED <<counter, exit, c_event, key_result, frame, overflow_checks>>
    /\ UNCHANGED jvars

NextCounter ==
    \/ InstallHooks
    \/ TuiInit
    \/ \E ev \in CounterEvents : CounterIteration(ev)
    \/ CounterDrawFails
    \/ CounterReadFails
    \/ RunReturns
    \/ TuiRestore

SpecCounter == InitCounter /\ [][NextCounter]_vars

----------------------------------------------------------------------------
(* Properties *)

\* the step is run_app handling the event ev it has just read
Handles(ev) == pc = "run_app" /\ event' = ev

Press(code) == [kind |-> "Press", code |-> code]

\* C1: currently_editing is Some(..) only while the screen is Editing; a
\* transition that leaves Editing (commit, Esc) has reset it to None.
C1_EditingFieldOnlyWhenEditing ==
    currently_editing # "None" => current_screen = "Editing"

\* a pair has been committed and the editor is back on Main
C1_Witness ==
    /\ current_screen = "Main"
    /\ currently_editing = "None"
    /\ pairs # <<>>
    /\ event = Press("Esc")

\* C2: Enter pressed on Editing with the field Value inserts
\* (key_input, value_input) into pairs, overwriting the value of an existing
\* key and keeping every other entry, empties both buffers, goes to Main with
\* no field, and run_app goes on.
C2_Commit ==
    [][(pc = "run_app" /\ Commits(event')) =>
          /\ DOMAIN pairs' = (DOMAIN pairs) \cup {key_input}
          /\ pairs'[key_input] = value_input
          /\ \A k \in (DOMAIN pairs) \ {key_input} : pairs'[k] = pairs[k]
          /\ key_input' = <<>>
          /\ value_input' = <<>>
          /\ current_screen' = "Main"
          /\ currently_editing' = "None"
          /\ res' = "None"
          /\ pc' = "run_app"]_vars

\* two pairs have been committed, one of them with a non-empty value
C2_Witness ==
    /\ event = Press("Enter")
    /\ current_screen = "Main"
    /\ key_input = <<>>
    /\ value_input = <<>>
    /\ Cardinality(DOMAIN pairs) = 2
    /\ \E k \in DOMAIN pairs : pairs[k] # <<>>

\* C3: Backspace pressed on Editing pops the buffer of the active field and
\* leaves the other buffer alone.
C3_BackspaceActiveBuffer ==
    [][(Handles(Press("Backspace")) /\ current_screen = "Editing") =>
          /\ currently_editing = "Key" =>
                (key_input' = Pop(key_input) /\ value_input' = value_input)
          /\ currently_editing = "Value" =>
                (value_input' = Pop(value_input) /\ key_input' = key_input)]_vars

\* C4: an event that is not a key press (release, repeat, not a key event)
\* changes nothing of the editor state and does not end the loop, on every
\* screen.
C4_OnlyPressActs ==
    [][(pc = "run_app" /\ event'.kind \in {"Release", "Repeat", "NotKey"}) =>
          UNCHANGED <<app, res, pc>>]_vars

\* C5: on Exiting a press of 'y' returns Ok(true), a press of 'n' or 'q'
\* returns Ok(false), any other press goes on with the screen still Exiting;
\* pairs, the buffers and the field do not change.
C5_ExitingAnswers ==
    [][(pc = "run_app" /\ current_screen = "Exiting" /\ event'.kind = "Press") =>
          /\ UNCHANGED <<pairs, key_input, value_input, currently_editing>>
          /\ event'.code = "y" => (res' = "OkTrue" /\ pc' # "run_app")
          /\ event'.code \in {"n", "q"} => (res' = "OkFalse" /\ pc' # "run_app")
          /\ event'.code \notin {"y", "n", "q"} =>
                (res' = "None" /\ pc' = "run_app" /\ current_screen' = "Exiting")]_vars

\* 'y' has been pressed on Exiting with a pair committed
C5_Witness ==
    /\ event = Press("y")
    /\ current_screen = "Exiting"
    /\ res = "OkTrue"
    /\ pairs # <<>>

\* C6: print_json is invoked exactly when run_app returned Ok(true), at most
\* once, on the pairs the commits built; never after Ok(false).
C6_PrintIffExitAndEmit ==
    /\ Len(printed) <= 1
    /\ printed # <<>> => (res = "OkTrue" /\ printed[1] = pairs)
    /\ pc = "done" => (printed # <<>> <=> res = "OkTrue")

\* C6 as amended: print_json is invoked only after Ok(true), at most once,
\* on the pairs the commits built, and it has been invoked whenever main
\* returns Ok after Ok(true); a main that ends after Ok(true) without the
\* invocation returned the Err of a failed restore call.
C6_PrintOnlyAfterExitAndEmit ==
    /\ Len(printed) <= 1
    /\ printed # <<>> => (res = "OkTrue" /\ printed[1] = pairs)
    /\ (pc = "done" /\ res = "OkTrue" /\ exit_status = "Ok") => printed # <<>>
    /\ (pc = "done" /\ res = "OkTrue" /\ printed = <<>>) => exit_status = "Err"

\* print_json has received a committed pair while key_input holds text that
\* was never committed
C6_Witness ==
    /\ pc = "done"
    /\ exit_status = "Ok"
    /\ Len(printed) = 1
    /\ printed[1] # <<>>
    /\ key_input # <<>>
    /\ key_input \notin DOMAIN printed[1]

C8_KeyInputIsTyped ==
    typed # <<>> => key_input = typed

\* C8 as amended: after the run key_input is what it held before the run
\* followed by the characters pressed, in order.
C8_KeyInputIsBaseThenTyped ==
    typed # <<>> =>
        /\ current_screen = "Editing"
        /\ currently_editing = "Key"
        /\ key_input = base \o typed

\* two different characters have been pressed one after the other
C8_Witness ==
    /\ Len(typed) = 2
    /\ typed[1] # typed[2]
    /\ current_screen = "Editing"
    /\ currently_editing = "Key"

\* C9: when main has returned, on every path, raw mode is disabled and the
\* alternate screen has been left; the same holds when main prints the error
\* of run_app.
C9_RestoredOnEveryExit ==
    (pc = "done" \/ err_printed) => (~raw_mode /\ ~alternate_screen)

\* C10: pairs changes only by a commit (Enter pressed on Editing with the
\* field Value), and no step removes a key from it.
C10_PairsGrowOnlyByCommit ==
    [][/\ pairs' # pairs => (pc = "run_app" /\ Commits(event'))
       /\ (DOMAIN pairs) \subseteq (DOMAIN pairs')]_vars

\* a committed pair is still in pairs after an edit was abandoned with Esc
C10_Witness ==
    /\ pairs # <<>>
    /\ event = Press("Esc")
    /\ current_screen = "Main"
    /\ key_input # <<>>

\* C11: Backspace pressed on Editing while the buffer of the active field is
\* empty changes nothing of the editor state, and run_app goes on.
C11_BackspaceOnEmptyIsNoOp ==
    [][(/\ Handles(Press("Backspace"))
        /\ current_screen = "Editing"
        /\ \/ (currently_editing = "Key" /\ key_input = <<>>)
           \/ (currently_editing = "Value" /\ value_input = <<>>)) =>
          UNCHANGED <<app, res, pc>>]_vars

\* Backspace has been pressed with the field Value, value_input empty and
\* key_input holding text
C11_Witness ==
    /\ event = Press("Backspace")
    /\ current_screen = "Editing"
    /\ currently_editing = "Value"
    /\ value_input = <<>>
    /\ key_input # <<>>
    /\ pc = "run_app"

\* C12: an Esc press that follows an Esc press changes nothing: two presses
\* leave the state one press leaves.
C12_EscTwiceIsEscOnce ==
    [][(Handles(Press("Esc")) /\ event = Press("Esc")) =>
          UNCHANGED <<app, res, pc>>]_vars

\* Esc has abandoned an edit whose two buffers hold text, and the loop is
\* ready for the next Esc
C12_Witness ==
    /\ event = Press("Esc")
    /\ current_screen = "Main"
    /\ currently_editing = "None"
    /\ key_input # <<>>
    /\ value_input # <<>>
    /\ pc = "run_app"

\* C13: a character pressed while currently_editing is None changes neither
\* key_input nor value_input.
C13_TypingWithoutFieldKeepsBuffers ==
    [][(/\ pc = "run_app"
        /\ event'.kind = "Press"
        /\ event'.code \in Chars
        /\ currently_editing = "None") =>
          UNCHANGED <<key_input, value_input>>]_vars

\* 'e' has been pressed on Main while key_input held abandoned text
C13_Witness ==
    /\ event = Press("e")
    /\ current_screen = "Editing"
    /\ currently_editing = "Key"
    /\ typed = <<>>
    /\ key_input # <<>>

\* C16: Esc pressed on Editing goes to Main with no field and leaves
\* key_input, value_input and pairs as they were; two non-empty buffers are
\* emptied in one step only by a commit; 'e' pressed on Main enters Editing
\* with the buffers as they were left.
C16_EscKeepsBuffers ==
    [][/\ (Handles(Press("Esc")) /\ current_screen = "Editing") =>
             /\ current_screen' = "Main"
             /\ currently_editing' = "None"
             /\ UNCHANGED <<key_input, value_input, pairs>>
       /\ (/\ key_input # <<>>
           /\ value_input # <<>>
           /\ key_input' = <<>>
           /\ value_input' = <<>>) => (pc = "run_app" /\ Commits(event'))
       /\ (Handles(Press("e")) /\ current_screen = "Main") =>
             /\ current_screen' = "Editing"
             /\ currently_editing' = "Key"
             /\ UNCHANGED <<key_input, value_input, pairs>>]_vars

\* Editing has been entered again with 'e' while both buffers hold the text
\* of an abandoned edit
C16_Witness ==
    /\ event = Press("e")
    /\ current_screen = "Editing"
    /\ currently_editing = "Key"
    /\ typed = <<>>
    /\ key_input # <<>>
    /\ value_input # <<>>

\* C17: Tab pressed on Editing turns Key into Value and Value into Key (None
\* into Key) and changes nothing else; from a set field, the toggle applied to
\* the field a Tab press produced gives the field before the press, so a
\* second Tab press restores the state.
C17_TabToggles ==
    [][(Handles(Press("Tab")) /\ current_screen = "Editing") =>
          /\ currently_editing = "Key" => currently_editing' = "Value"
          /\ currently_editing = "Value" => currently_editing' = "Key"
          /\ currently_editing = "None" => currently_editing' = "Key"
          /\ currently_editing # "None" =>
                Toggled(currently_editing') = currently_editing
          /\ UNCHANGED <<key_input, value_input, pairs, current_screen>>
          /\ UNCHANGED <<res, pc>>]_vars

\* Tab has been pressed on Editing and the field is Key again, with text in
\* both buffers
C17_Witness ==
    /\ event = Press("Tab")
    /\ current_screen = "Editing"
    /\ currently_editing = "Key"
    /\ key_input # <<>>
    /\ value_input # <<>>

\* C18: the screen is Editing exactly when currently_editing is Some(..); on
\* Editing the field is never None.
C18_EditingIffFieldSet ==
    current_screen = "Editing" <=> currently_editing \in {"Key", "Value"}

\* Editing has been entered again after a commit and the field moved to Value
C18_Witness ==
    /\ current_screen = "Editing"
    /\ currently_editing = "Value"
    /\ pairs # <<>>
    /\ event = Press("Enter")

\* C19: once the screen is Exiting it stays Exiting, and pairs, the buffers
\* and the field never change again; the loop is left only with a result of
\* run_app.
C19_ExitingIsAbsorbing ==
    [][current_screen = "Exiting" =>
          /\ current_screen' = "Exiting"
          /\ UNCHANGED <<pairs, key_input, value_input, currently_editing>>
          /\ (pc = "run_app" /\ pc' # "run_app") => res' # "None"]_vars

\* 'n' has been answered on Exiting with text left in key_input
C19_Witness ==
    /\ current_screen = "Exiting"
    /\ event = Press("n")
    /\ res = "OkFalse"
    /\ key_input # <<>>

\* the step is the run loop of the counter app handling the event ev
CounterHandles(ev) == c_pc = "run" /\ c_event' = ev

\* C14: counter app: a Right press adds one to the counter and returns Ok
\* while the incremented counter is at most 2, and returns the error
\* "counter overflow" when it is above 2; from 0 the first two presses
\* succeed and the third fails.
C14_RightUpToTwo ==
    [][CounterHandles(Press("Right")) =>
          /\ counter < U8 - 1 => counter' = counter + 1
          /\ counter' <= 2 => (key_result' = "Ok" /\ c_pc' = "run")
          /\ counter' > 2 =>
                (key_result' = "counter overflow" /\ c_exit' = "Err")
          /\ counter \in {0, 1} => key_result' = "Ok"
          /\ counter = 2 => key_result' = "counter overflow"]_vars

\* the third Right press from 0 has failed
C14_Witness ==
    /\ c_event = Press("Right")
    /\ key_result = "counter overflow"
    /\ counter = 3
    /\ frame = <<2>>

\* C15: counter app: a Left press takes exactly one from a counter above 0
\* and returns Ok; at 0 it panics with a subtraction overflow and the counter
\* does not become 255.
C15_LeftPanicsAtZero ==
    [][CounterHandles(Press("Left")) =>
          /\ counter > 0 => (counter' = counter - 1 /\ key_result' = "Ok")
          /\ counter = 0 =>
                /\ key_result' = "attempt to subtract with overflow"
                /\ c_exit' = "Panic"
                /\ counter' # 255]_vars

\* C20: counter app: every frame drawn shows a counter within 0..2; a press
\* that would take the counter out of that range (Right at 2, Left at 0) ends
\* the run with an error or a panic, so no further frame is drawn; the exit
\* flag is set only by a 'q' press, and the loop ends only with that flag set
\* or with an error or panic.
C20_FramesWithinRange ==
    /\ [](frame # <<>> => frame[1] \in 0..2)
    /\ [][/\ (\/ (CounterHandles(Press("Right")) /\ counter = 2)
              \/ (CounterHandles(Press("Left")) /\ counter = 0)) =>
                (c_pc' = "done" /\ c_exit' \in {"Err", "Panic"})
          /\ (c_pc = "run" /\ c_pc' # "run") =>
                (exit \/ c_exit' \in {"Err", "Panic"})
          /\ (~exit /\ exit') => CounterHandles(Press("q"))]_vars

====
